---- MODULE Spec2Model ----
(***************************************************************************)
(* A model of `bump` (scottidler/bump): semantic-version bookkeeping for a *)
(* Cargo package kept in git.  The model covers                            *)
(*   - src/version.rs : BumpType, parse_version, bump_version, formatting  *)
(*   - src/main.rs    : determine_version_action, process_directory, main, *)
(*                      determine_commit_message                           *)
(*   - src/git.rs     : the git queries and mutations process_directory    *)
(*                      calls, by their effect on the repository           *)
(*   - src/cargo.rs   : read_version / write_version / sync_lockfile,      *)
(*                      check_workspace_independent_versions               *)
(* A version is a triple <<major, minor, patch>>.  semver::Version keeps   *)
(* each component in a u64; the model keeps the width but scales it:       *)
(* U64_MAX stands for 2^64 - 1.  `+= 1` on a component that holds U64_MAX  *)
(* overflows: a build with overflow checks (cargo's dev profile) panics, a *)
(* build without them (cargo's release profile) wraps to 0.                *)
(***************************************************************************)
EXTENDS Integers, Sequences, FiniteSets, TLC

VARIABLES
    overflow_checks,      \* the build: TRUE = overflow panics, FALSE = wraps
    \* ---- the directory: manifest, repository, working tree
    is_git_repo,          \* git rev-parse --git-dir succeeds
    cargo_toml_exists,    \* dir/Cargo.toml exists
    manifest_version,     \* Option<String>: the manifest's version field
    independent_members,  \* workspace members with a version of their own
    lockfile_exists,      \* dir/Cargo.lock exists
    tags,                 \* the repository's tags matching v*
    head_has_tag,         \* an annotated tag points at HEAD
    head_is_pushed,       \* HEAD is an ancestor of its upstream
    changes,              \* files that differ from HEAD (staged or not)
    staged,               \* files in the index that differ from HEAD
    commits,              \* commits created so far
    amends,               \* commits rewritten by --amend so far
    head_message,         \* the message of the commit HEAD points at
    \* ---- one run of process_directory
    pc,                   \* where the run stands
    cli,                  \* the command line of the run
    action,               \* the result of determine_version_action
    error,                \* the error the run returned ("" = none)
    ops,                  \* the mutating operations the run executed, in order
    output,               \* the lines the run printed
    commit_message,       \* Option<String>: the message resolved for the commit
    tag_message,          \* Option<String>: the message given to create_tag
    ctx,                  \* the run's locals: has_changes, is_pushed
    start,                \* the directory as the run found it
    member_list,          \* the members the run's error lists
    \* ---- main: the loop over the directories of the command line
    directories,          \* cli.directories: for each path, whether it is absolute
    index,                \* the position of the loop in the directories
    successes,            \* main's counter of the runs that returned Ok
    failures,             \* main's counter of the runs that returned Err
    processed,            \* how process_directory returned, one entry per call
    main_pc,              \* where main stands
    exit_status,          \* Option<i32>: the status the process exited with
    \* ---- the workspace, and the run before this one
    workspace,            \* the root manifest's [workspace] and its members
    prev,                 \* what the run before this one did
    \* ---- calls of the pure functions of src/version.rs
    call,                 \* the call's arguments
    ret                   \* the call's result

dirvars == <<is_git_repo, cargo_toml_exists, manifest_version, independent_members,
             lockfile_exists, tags, head_has_tag, head_is_pushed, changes, staged,
             commits, amends, head_message>>
runvars == <<pc, cli, action, error, ops, output, commit_message, tag_message, ctx, start,
             member_list>>
fnvars  == <<call, ret>>
batchvars == <<directories, index, successes, failures, processed, main_pc, exit_status>>
outervars == <<batchvars, workspace, prev>>
vars    == <<overflow_checks, dirvars, runvars, fnvars, outervars>>

----------------------------------------------------------------------------
(* Bounds *)

\* The largest value of a version component: stands for u64::MAX.
U64_MAX == 2

Components == 0 .. U64_MAX
Versions   == Components \X Components \X Components

----------------------------------------------------------------------------
(* Option<T>: None is the empty sequence, Some(x) the sequence <<x>>. *)

None       == << >>
Some(x)    == << x >>
IsSome(o)  == Len(o) = 1
IsNone(o)  == Len(o) = 0
Unwrap(o)  == o[1]

----------------------------------------------------------------------------
(* src/version.rs *)

BumpTypes == {"Major", "Minor", "Patch"}

\* A plausible slip: --minor looked at first.
from_cli_minor_first(major, minor) ==
    IF minor THEN "Minor"
    ELSE IF major THEN "Major"
    ELSE "Patch"

\* BumpType::from_cli
from_cli(major, minor) ==
    IF major THEN "Major"
    ELSE IF minor THEN "Minor"
    ELSE "Patch"

\* A version string: an optional leading 'v', the core "x.y.z", and what follows
\* the core: nothing, a pre-release suffix ("-alpha") or build metadata
\* ("+build123").
Suffixes == {"", "-alpha", "+build"}

VersionString(lead, core, tail) == [lead |-> lead, core |-> core, tail |-> tail]

VersionStrings == [lead : BOOLEAN, core : Versions, tail : Suffixes]

ParseOk(v)   == [kind |-> "Ok",  version |-> v, err |-> ""]
ParseErr(e)  == [kind |-> "Err", version |-> <<0, 0, 0>>, err |-> e]

\* A plausible slip: the leading 'v' left for semver to parse.
strip_prefix_v_forgotten(version_str) == version_str

\* str::strip_prefix('v').unwrap_or(version_str): drops one leading 'v'.
strip_prefix_v(version_str) == [version_str EXCEPT !.lead = FALSE]

\* A plausible slip: build metadata, which has no part in precedence, let through.
parse_version_ignoring_build(version_str) ==
    LET stripped == strip_prefix_v(version_str) IN
    IF stripped.lead THEN ParseErr("unexpected character 'v' while parsing major version number")
    ELSE IF stripped.tail = "-alpha" THEN ParseErr("Pre-release versions are not supported")
    ELSE ParseOk(stripped.core)

\* parse_version: strips one leading 'v', parses with semver::Version::parse
\* (which takes no leading 'v'), and rejects a pre-release or build-metadata
\* part.
parse_version(version_str) ==
    LET stripped == strip_prefix_v(version_str) IN
    IF stripped.lead THEN ParseErr("unexpected character 'v' while parsing major version number")
    ELSE IF stripped.tail = "-alpha" THEN ParseErr("Pre-release versions are not supported")
    ELSE IF stripped.tail = "+build" THEN ParseErr("Build metadata versions are not supported")
    ELSE ParseOk(stripped.core)

\* Result::ok(): Ok(v) becomes Some(v), Err(_) becomes None.
ok(result) == IF result.kind = "Ok" THEN Some(result.version) ELSE None

\* u64 `+= 1` without overflow checks: wrapping addition.
wrapping_inc(x) == (x + 1) % (U64_MAX + 1)

\* The component bump_version increments.
bumped_component(version, bump_type) ==
    CASE bump_type = "Major" -> version[1]
      [] bump_type = "Minor" -> version[2]
      [] bump_type = "Patch" -> version[3]

\* bump_version's `+= 1` overflows the u64.
bump_overflows(version, bump_type) ==
    bumped_component(version, bump_type) = U64_MAX

\* bump_version, the value it returns when it returns.
bump_version(version, bump_type) ==
    CASE bump_type = "Major" -> <<wrapping_inc(version[1]), 0, 0>>
      [] bump_type = "Minor" -> <<version[1], wrapping_inc(version[2]), 0>>
      [] bump_type = "Patch" -> <<version[1], version[2], wrapping_inc(version[3])>>

\* format_cargo_version: "{major}.{minor}.{patch}"
format_cargo_version(version) == VersionString(FALSE, version, "")

\* format_tag: "v{major}.{minor}.{patch}"
format_tag(version) == VersionString(TRUE, version, "")

----------------------------------------------------------------------------
(* src/git.rs and src/cargo.rs: the queries *)

\* Lexicographic order on version triples (semver precedence without
\* pre-release parts).
VersionLess(a, b) ==
    \/ a[1] < b[1]
    \/ a[1] = b[1] /\ a[2] < b[2]
    \/ a[1] = b[1] /\ a[2] = b[2] /\ a[3] < b[3]

\* git's version sort (--sort=v:refname) on tag names "v<core><tail>": the cores
\* compare numerically; with equal cores the shorter name sorts first, and
\* '+' (0x2b) sorts before '-' (0x2d).
tail_rank(tail) ==
    CASE tail = "" -> 0
      [] tail = "+build" -> 1
      [] tail = "-alpha" -> 2

refname_less(a, b) ==
    \/ VersionLess(a.core, b.core)
    \/ a.core = b.core /\ tail_rank(a.tail) < tail_rank(b.tail)

\* get_latest_tag: the first line of `git tag -l "v*" --sort=-v:refname`.
get_latest_tag(tagset) ==
    IF tagset = {} THEN None
    ELSE Some(CHOOSE t \in tagset : \A u \in tagset : u = t \/ refname_less(u, t))

\* tag_exists: `git tag -l <tag>` prints the tag.
tag_exists(tagset, tag) == tag \in tagset

\* cargo::read_version: the manifest's version field, if it has one.
read_version(field) == field

----------------------------------------------------------------------------
(* src/cargo.rs: check_workspace_independent_versions *)

\* The most members a workspace of the model declares.
MaxMembers == 2

\* The value of a member's `version` key, as toml_edit parses it.
NoVersionKey == [kind |-> "none", text |-> "", workspace |-> FALSE]

\* version = "2.0.0"
LiteralVersion(text) == [kind |-> "string", text |-> text, workspace |-> FALSE]

\* version = { workspace = <flag> }: an inline table.
InlineVersion(flag) == [kind |-> "inline_table", text |-> "", workspace |-> flag]

\* version.workspace = true: a dotted key, which makes `version` a table.
DottedVersion == [kind |-> "table", text |-> "", workspace |-> TRUE]

VersionItems ==
    {NoVersionKey, LiteralVersion("2.0.0"), InlineVersion(TRUE), InlineVersion(FALSE),
     DottedVersion}

\* Item::as_str
as_str(item) == IF item.kind = "string" THEN Some(item.text) ELSE None

\* version.as_inline_table().is_some_and(|t| t.get("workspace")
\*     .is_some_and(|w| w.as_bool() == Some(true)))
uses_workspace(item) == item.kind = "inline_table" /\ item.workspace

\* A member's Cargo.toml: unparsable, or a document with or without [package],
\* the package with or without a name.
Malformed == [parses |-> FALSE, package |-> FALSE, name |-> None, version |-> NoVersionKey]

MemberDoc(package, name, version) ==
    [parses |-> TRUE, package |-> package, name |-> name, version |-> version]

\* An entry of `members`: a string (the member's path) or another value; the
\* manifest is dir/<path>/Cargo.toml if that file exists.
MemberEntry(is_str, path, manifest) == [is_str |-> is_str, path |-> path, manifest |-> manifest]

\* The root manifest: has_workspace says whether it has a [workspace] table,
\* members is the table's `members` array if it has one.
RootManifest(has_workspace, members) == [has_workspace |-> has_workspace, members |-> members]

NotAWorkspace == RootManifest(FALSE, None)

IndependentVersionMember(name, path, version) ==
    [name |-> name, path |-> path, version |-> version]

MembersOk(list) == [kind |-> "Ok", members |-> list, err |-> ""]
MembersErr(e)   == [kind |-> "Err", members |-> << >>, err |-> e]

\* A plausible slip: every member with a version key that does not inherit is
\* recorded, whatever the key holds.
member_check_flagging_any_version_key(entry) ==
    IF ~entry.is_str THEN << >>
    ELSE IF IsNone(entry.manifest) THEN << >>
    ELSE LET doc == Unwrap(entry.manifest) IN
         IF ~doc.package THEN << >>
         ELSE IF doc.version.kind = "none" THEN << >>
         ELSE IF uses_workspace(doc.version) THEN << >>
         ELSE << IndependentVersionMember(
                    IF IsSome(doc.name) THEN Unwrap(doc.name) ELSE entry.path,
                    entry.path, doc.version.text) >>

\* The body of the loop over the members (lines 215-255), for a member whose
\* manifest parses: what it pushes.
member_check(entry) ==
    IF ~entry.is_str THEN << >>
    ELSE IF IsNone(entry.manifest) THEN << >>
    ELSE LET doc == Unwrap(entry.manifest) IN
         IF ~doc.package THEN << >>
         ELSE IF doc.version.kind = "none" THEN << >>
         ELSE IF uses_workspace(doc.version) THEN << >>
         ELSE IF IsNone(as_str(doc.version)) THEN << >>
         ELSE << IndependentVersionMember(
                    IF IsSome(doc.name) THEN Unwrap(doc.name) ELSE entry.path,
                    entry.path, Unwrap(as_str(doc.version))) >>

\* The member's manifest exists and does not parse: the `?` of line 227.
member_fails(entry) ==
    entry.is_str /\ IsSome(entry.manifest) /\ ~Unwrap(entry.manifest).parses

RECURSIVE members_loop(_, _, _)
\* for member in members.iter(): from entry i on, with the vector so far.
members_loop(members, i, independent_versions) ==
    IF i > Len(members) THEN MembersOk(independent_versions)
    ELSE IF member_fails(members[i]) THEN MembersErr("Failed to parse member Cargo.toml")
    ELSE members_loop(members, i + 1, independent_versions \o member_check(members[i]))

check_workspace_independent_versions(root) ==
    IF ~root.has_workspace THEN MembersOk(<< >>)
    ELSE IF IsNone(root.members) THEN MembersOk(<< >>)
    ELSE members_loop(Unwrap(root.members), 1, << >>)

----------------------------------------------------------------------------
(* src/main.rs: determine_version_action *)

DEFAULT_UNTOUCHED_VERSION == <<0, 1, 0>>

\* Ok(VersionAction { target_version, needs_cargo_update, is_initial_tag })
VersionAction(target, update, initial) ==
    [kind |-> "Ok", target_version |-> target, needs_cargo_update |-> update,
     is_initial_tag |-> initial, err |-> "", names |-> << >>]

\* bail!("Version mismatch: Cargo.toml has {} but latest git tag is {}. ...")
VersionMismatch(cargo_text, tag_text) ==
    [kind |-> "Err", target_version |-> <<0, 0, 0>>, needs_cargo_update |-> FALSE,
     is_initial_tag |-> FALSE, err |-> "VersionMismatch", names |-> <<cargo_text, tag_text>>]

\* The process panicked ("attempt to add with overflow"): no value is returned.
Panicked ==
    [kind |-> "Panic", target_version |-> <<0, 0, 0>>, needs_cargo_update |-> FALSE,
     is_initial_tag |-> FALSE, err |-> "attempt to add with overflow", names |-> << >>]

\* No call has returned yet.
NoAction ==
    [kind |-> "None", target_version |-> <<0, 0, 0>>, needs_cargo_update |-> FALSE,
     is_initial_tag |-> FALSE, err |-> "", names |-> << >>]

\* Ok(VersionAction { target_version: bump_version(base, bump_type), true, false }),
\* or the panic of bump_version in a build with overflow checks.
bumped_action(base, bump_type, checks) ==
    IF checks /\ bump_overflows(base, bump_type) THEN Panicked
    ELSE VersionAction(bump_version(base, bump_type), TRUE, FALSE)

\* A plausible slip: a manifest ahead of the latest tag is trusted and bumped.
both_present_trusting_manifest(cargo, tag, bump_type, checks) ==
    IF cargo = DEFAULT_UNTOUCHED_VERSION THEN bumped_action(tag, bump_type, checks)
    ELSE IF cargo = tag \/ VersionLess(tag, cargo) THEN bumped_action(cargo, bump_type, checks)
    ELSE VersionMismatch(format_cargo_version(cargo), format_tag(tag))

\* (Some(cargo), Some(tag)): lines 128-159.
both_present(cargo, tag, bump_type, checks) ==
    IF cargo = DEFAULT_UNTOUCHED_VERSION THEN bumped_action(tag, bump_type, checks)
    ELSE IF cargo = tag THEN bumped_action(cargo, bump_type, checks)
    ELSE VersionMismatch(format_cargo_version(cargo), format_tag(tag))

\* A plausible slip: the flags of a bump on the initial-tag branch.
only_cargo_flagged_as_bump(cargo) == VersionAction(cargo, TRUE, FALSE)

\* (Some(cargo), None): lines 162-171.
only_cargo(cargo) == VersionAction(cargo, FALSE, TRUE)

\* (None, Some(tag)): lines 174-185.
only_tag(tag, bump_type, checks) == bumped_action(tag, bump_type, checks)

\* A plausible slip: the first version is 0.0.1.
no_version_starting_at_0_0_1 == VersionAction(<<0, 0, 1>>, TRUE, TRUE)

\* (None, None): lines 188-195.
no_version == VersionAction(<<0, 1, 0>>, TRUE, TRUE)

\* The match on (cargo_version, latest_tag_version).
match_versions(cargo_version, latest_tag_version, bump_type, checks) ==
    IF IsSome(cargo_version) /\ IsSome(latest_tag_version) THEN
        both_present(Unwrap(cargo_version), Unwrap(latest_tag_version), bump_type, checks)
    ELSE IF IsSome(cargo_version) THEN only_cargo(Unwrap(cargo_version))
    ELSE IF IsSome(latest_tag_version) THEN
        only_tag(Unwrap(latest_tag_version), bump_type, checks)
    ELSE no_version

\* Option::and_then(|s| parse_version(&s).ok())
parsed(opt) == IF IsSome(opt) THEN ok(parse_version(Unwrap(opt))) ELSE None

\* The manifest's version as determine_version_action reads it.
cargo_version_of(field) == parsed(read_version(field))

\* The latest tag's version as determine_version_action reads it.
latest_tag_version_of(tagset) == parsed(get_latest_tag(tagset))

determine_version_action(field, tagset, bump_type, checks) ==
    match_versions(cargo_version_of(field), latest_tag_version_of(tagset), bump_type, checks)

----------------------------------------------------------------------------
(* The command line (src/cli.rs).  clap rejects --major with --minor and       *)
(* --message with --automatic.                                               *)

Cli(major, minor, dry_run, message, automatic) ==
    [major |-> major, minor |-> minor, dry_run |-> dry_run,
     message |-> message, automatic |-> automatic]

NoCli == Cli(FALSE, FALSE, FALSE, None, FALSE)

BumpFlags == {<<FALSE, FALSE>>, <<TRUE, FALSE>>, <<FALSE, TRUE>>}

\* main: let bump_type = BumpType::from_cli(cli.major, cli.minor)
bump_type_of(c) == from_cli(c.major, c.minor)

----------------------------------------------------------------------------
(* Initial values of the parts a specification does not use *)

NoCtx  == [has_changes |-> FALSE, is_pushed |-> FALSE]

\* The part of the directory a run can change.
Snapshot ==
    [manifest_version |-> manifest_version, tags |-> tags, head_has_tag |-> head_has_tag,
     head_is_pushed |-> head_is_pushed, changes |-> changes, staged |-> staged,
     commits |-> commits, amends |-> amends, head_message |-> head_message]

NoStart ==
    [manifest_version |-> None, tags |-> {}, head_has_tag |-> FALSE,
     head_is_pushed |-> FALSE, changes |-> {}, staged |-> {}, commits |-> 0, amends |-> 0,
     head_message |-> << >>]

\* A call of a function of src/version.rs: the function and its arguments
\* (version, bump_type for bump_version; text for parse_version; version for the
\* two formats; major, minor for from_cli).  origin is None, or the call whose
\* result this call was given.
NoText == VersionString(FALSE, <<0, 0, 0>>, "")

NoCall == [fn |-> "none", version |-> <<0, 0, 0>>, bump_type |-> "Patch", text |-> NoText,
           major |-> FALSE, minor |-> FALSE, origin |-> None]

\* What the call returned: a version, a text or a BumpType, or an error.
NoRet  == [kind |-> "None", version |-> <<0, 0, 0>>, text |-> NoText, bump_type |-> "Patch",
           err |-> ""]

FnIdle == call = NoCall /\ ret = NoRet

RunIdle ==
    /\ pc = "idle"
    /\ cli = NoCli
    /\ action = NoAction
    /\ error = ""
    /\ ops = << >>
    /\ output = {}
    /\ commit_message = None
    /\ tag_message = None
    /\ ctx = NoCtx
    /\ start = NoStart
    /\ member_list = << >>

\* main has not started: no directory is given, nothing is counted.
BatchIdle ==
    /\ directories = << >>
    /\ index = 1
    /\ successes = 0
    /\ failures = 0
    /\ processed = << >>
    /\ main_pc = "none"
    /\ exit_status = None

\* No run came before this one.
NoPrev == [ran |-> FALSE, ops |-> << >>, target_version |-> <<0, 0, 0>>,
           manifest_version |-> None, tags |-> {}]

OuterIdle ==
    /\ BatchIdle
    /\ workspace = NotAWorkspace
    /\ prev = NoPrev

\* The message of the commit HEAD points at when bump is started.
PreviousMessage == <<"earlier message">>

\* A committed package with no version field, no tag and a clean tree.
DirPlain ==
    /\ is_git_repo = TRUE
    /\ cargo_toml_exists = TRUE
    /\ manifest_version = None
    /\ independent_members = << >>
    /\ lockfile_exists = FALSE
    /\ tags = {}
    /\ head_has_tag = FALSE
    /\ head_is_pushed = FALSE
    /\ changes = {}
    /\ staged = {}
    /\ commits = 0
    /\ amends = 0
    /\ head_message = PreviousMessage

----------------------------------------------------------------------------
(* SpecVersion: calls of the functions of src/version.rs on every argument *)

BumpCalls ==
    {[NoCall EXCEPT !.fn = "bump_version", !.version = v, !.bump_type = g] :
        v \in Versions, g \in BumpTypes}

ParseCalls == {[NoCall EXCEPT !.fn = "parse_version", !.text = s] : s \in VersionStrings}

Formats == {"format_cargo_version", "format_tag"}

FormatCalls == {[NoCall EXCEPT !.fn = f, !.version = v] : f \in Formats, v \in Versions}

FromCliCalls ==
    {[NoCall EXCEPT !.fn = "from_cli", !.major = major, !.minor = minor] :
        major \in BOOLEAN, minor \in BOOLEAN}

InitVersion ==
    /\ overflow_checks \in BOOLEAN
    /\ call \in BumpCalls \cup ParseCalls \cup FormatCalls \cup FromCliCalls
    /\ ret = NoRet
    /\ DirPlain
    /\ RunIdle
    /\ OuterIdle

\* bump_version(&call.version, call.bump_type): the value returned, or the panic
\* of `+= 1` in a build with overflow checks.
CallBumpVersion ==
    /\ call.fn = "bump_version"
    /\ ret = NoRet
    /\ ret' = IF overflow_checks /\ bump_overflows(call.version, call.bump_type)
              THEN [NoRet EXCEPT !.kind = "Panic"]
              ELSE [NoRet EXCEPT !.kind = "Ok",
                                 !.version = bump_version(call.version, call.bump_type)]
    /\ UNCHANGED <<overflow_checks, dirvars, runvars, call, outervars>>

\* parse_version(&call.text)
CallParseVersion ==
    /\ call.fn = "parse_version"
    /\ ret = NoRet
    /\ LET r == parse_version(call.text) IN
        ret' = [NoRet EXCEPT !.kind = r.kind, !.version = r.version, !.err = r.err]
    /\ UNCHANGED <<overflow_checks, dirvars, runvars, call, outervars>>

\* The format named f, applied to version.
format(f, version) ==
    CASE f = "format_cargo_version" -> format_cargo_version(version)
      [] f = "format_tag"           -> format_tag(version)

\* format_cargo_version(&call.version) or format_tag(&call.version)
CallFormat ==
    /\ call.fn \in Formats
    /\ ret = NoRet
    /\ ret' = [NoRet EXCEPT !.kind = "Ok", !.text = format(call.fn, call.version)]
    /\ UNCHANGED <<overflow_checks, dirvars, runvars, call, outervars>>

\* The text a format returned is handed to parse_version.
ParseFormatted ==
    /\ call.fn \in Formats
    /\ IsNone(call.origin)
    /\ ret.kind = "Ok"
    /\ call' = [NoCall EXCEPT !.fn = "parse_version", !.text = ret.text,
                               !.origin = Some([fn |-> call.fn, version |-> call.version,
                                                text |-> ret.text])]
    /\ ret' = NoRet
    /\ UNCHANGED <<overflow_checks, dirvars, runvars, outervars>>

\* The version parse_version returned for a formatted text is formatted again,
\* by the same format.
FormatParsed ==
    /\ call.fn = "parse_version"
    /\ IsSome(call.origin)
    /\ ret.kind = "Ok"
    /\ call' = [NoCall EXCEPT !.fn = Unwrap(call.origin).fn, !.version = ret.version,
                               !.origin = call.origin]
    /\ ret' = NoRet
    /\ UNCHANGED <<overflow_checks, dirvars, runvars, outervars>>

\* BumpType::from_cli(call.major, call.minor)
CallFromCli ==
    /\ call.fn = "from_cli"
    /\ ret = NoRet
    /\ ret' = [NoRet EXCEPT !.kind = "Ok", !.bump_type = from_cli(call.major, call.minor)]
    /\ UNCHANGED <<overflow_checks, dirvars, runvars, call, outervars>>

NextVersion ==
    \/ CallBumpVersion
    \/ CallParseVersion
    \/ CallFormat
    \/ ParseFormatted
    \/ FormatParsed
    \/ CallFromCli

SpecVersion == InitVersion /\ [][NextVersion]_vars

----------------------------------------------------------------------------
(* SpecResolve: determine_version_action on every manifest version and every   *)
(* latest tag                                                                *)

\* The manifest's version field: absent, or "x.y.z".
PlainFields == {None} \cup {Some(format_cargo_version(v)) : v \in Versions}

\* No tag, one tag "vx.y.z", or two of them, one being v0.1.0 or v0.1.1.
PlainTagSets ==
    {{}} \cup {{format_tag(v)} : v \in Versions}
         \cup {{format_tag(v), format_tag(w)} : v \in Versions, w \in {<<0, 1, 0>>, <<0, 1, 1>>}}

InitResolve ==
    /\ overflow_checks \in BOOLEAN
    /\ is_git_repo = TRUE
    /\ cargo_toml_exists = TRUE
    /\ manifest_version \in PlainFields
    /\ independent_members = << >>
    /\ lockfile_exists = FALSE
    /\ tags \in PlainTagSets
    /\ head_has_tag = FALSE
    /\ head_is_pushed = FALSE
    /\ changes = {}
    /\ staged = {}
    /\ commits = 0
    /\ amends = 0
    /\ head_message = PreviousMessage
    /\ pc = "idle"
    /\ \E f \in BumpFlags : cli = Cli(f[1], f[2], FALSE, None, FALSE)
    /\ action = NoAction
    /\ error = ""
    /\ ops = << >>
    /\ output = {}
    /\ commit_message = None
    /\ tag_message = None
    /\ ctx = NoCtx
    /\ start = NoStart
    /\ member_list = << >>
    /\ FnIdle
    /\ OuterIdle

\* determine_version_action(dir, cargo_path, bump_type)
CallDetermineVersionAction ==
    /\ pc = "idle"
    /\ pc' = "resolved"
    /\ action' = determine_version_action(manifest_version, tags, bump_type_of(cli),
                                           overflow_checks)
    /\ UNCHANGED <<overflow_checks, dirvars, cli, error, ops, output, commit_message,
                   tag_message, ctx, start, member_list, fnvars, outervars>>

NextResolve == CallDetermineVersionAction

SpecResolve == InitResolve /\ [][NextResolve]_vars

----------------------------------------------------------------------------
(* src/main.rs: determine_commit_message *)

\* The files of the package: the manifest, its lock file, and a source file.
Files == {"Cargo.toml", "Cargo.lock", "src/main.rs"}

\* clap's conflicts_with: --message and --automatic are not given together.
MessageModes == {<<None, FALSE>>, <<Some("explicit message"), FALSE>>, <<None, TRUE>>}

\* What the user leaves in the editor once the comment lines are dropped and the
\* rest is trimmed: a message, or nothing.
EditorTexts == {<<"edited message">>, << >>}

\* A run of the editor: it exits with success or not, and leaves a text.
EditorRuns == [exit_ok : BOOLEAN, text : EditorTexts]

\* Result<String>; `editor` says whether the editor was opened on the way.
MessageOk(m)  == [kind |-> "Ok", message |-> m, err |-> "", editor |-> FALSE]
MessageErr(e) == [kind |-> "Err", message |-> << >>, err |-> e, editor |-> FALSE]

\* prompt_commit_message_with_editor: `typed` is the run of the editor.
prompt_commit_message_with_editor(staged_files, typed) ==
    [(IF ~typed.exit_ok THEN MessageErr("Editor exited with error")
      ELSE IF typed.text = << >> THEN MessageErr("Aborting commit due to empty commit message")
      ELSE MessageOk(typed.text))
        EXCEPT !.editor = TRUE]

\* A plausible slip: the version's files always announced as a bump.
determine_commit_message_always_bump(c, new_tag, staged_files, is_initial_tag, typed) ==
    IF IsSome(c.message) THEN MessageOk(<<Unwrap(c.message)>>)
    ELSE IF c.automatic THEN MessageOk(<<"Bump version to ", new_tag>>)
    ELSE IF staged_files = {} THEN MessageOk(<<"Release ", new_tag>>)
    ELSE IF \A f \in staged_files : f = "Cargo.toml" \/ f = "Cargo.lock" THEN
        MessageOk(<<"Bump version to ", new_tag>>)
    ELSE prompt_commit_message_with_editor(staged_files, typed)

\* A plausible slip: the lock file not counted among the version's files.
determine_commit_message_manifest_only(c, new_tag, staged_files, is_initial_tag, typed) ==
    IF IsSome(c.message) THEN MessageOk(<<Unwrap(c.message)>>)
    ELSE IF c.automatic THEN MessageOk(<<"Bump version to ", new_tag>>)
    ELSE IF staged_files = {} THEN MessageOk(<<"Release ", new_tag>>)
    ELSE IF \A f \in staged_files : f = "Cargo.toml" THEN
        IF is_initial_tag THEN MessageOk(<<"Release ", new_tag>>)
        ELSE MessageOk(<<"Bump version to ", new_tag>>)
    ELSE prompt_commit_message_with_editor(staged_files, typed)

determine_commit_message(c, new_tag, staged_files, is_initial_tag, typed) ==
    IF IsSome(c.message) THEN MessageOk(<<Unwrap(c.message)>>)
    ELSE IF c.automatic THEN MessageOk(<<"Bump version to ", new_tag>>)
    ELSE IF staged_files = {} THEN MessageOk(<<"Release ", new_tag>>)
    ELSE IF \A f \in staged_files : f = "Cargo.toml" \/ f = "Cargo.lock" THEN
        IF is_initial_tag THEN MessageOk(<<"Release ", new_tag>>)
        ELSE MessageOk(<<"Bump version to ", new_tag>>)
    ELSE prompt_commit_message_with_editor(staged_files, typed)

----------------------------------------------------------------------------
(* SpecMessage: determine_commit_message on every command line, every set of  *)
(* staged files and both kinds of tag                                        *)

InitMessage ==
    /\ overflow_checks \in BOOLEAN
    /\ is_git_repo = TRUE
    /\ cargo_toml_exists = TRUE
    /\ manifest_version = None
    /\ independent_members = << >>
    /\ lockfile_exists = FALSE
    /\ tags = {}
    /\ head_has_tag = FALSE
    /\ head_is_pushed = FALSE
    /\ staged \in SUBSET Files
    /\ changes = staged
    /\ commits = 0
    /\ amends = 0
    /\ head_message = PreviousMessage
    /\ pc = "idle"
    /\ \E m \in MessageModes : cli = Cli(FALSE, FALSE, FALSE, m[1], m[2])
    /\ \E v \in Versions, is_initial_tag \in BOOLEAN :
            action = VersionAction(v, ~is_initial_tag, is_initial_tag)
    /\ error = ""
    /\ ops = << >>
    /\ output = {}
    /\ commit_message = None
    /\ tag_message = None
    /\ ctx = NoCtx
    /\ start = NoStart
    /\ member_list = << >>
    /\ call = NoCall
    /\ ret = NoRet
    /\ OuterIdle

\* determine_commit_message(cli, &new_tag, &staged_files, action.is_initial_tag),
\* with whatever the user does in the editor if it opens.
CallDetermineCommitMessage ==
    /\ pc = "idle"
    /\ pc' = "message_returned"
    /\ \E typed \in EditorRuns :
            ret' = determine_commit_message(cli, format_tag(action.target_version), staged,
                                            action.is_initial_tag, typed)
    /\ UNCHANGED <<overflow_checks, dirvars, cli, action, error, ops, output, commit_message,
                   tag_message, ctx, start, member_list, call, outervars>>

NextMessage == CallDetermineCommitMessage

SpecMessage == InitMessage /\ [][NextMessage]_vars

----------------------------------------------------------------------------
(* src/main.rs: process_directory.  The run is a sequence of steps; pc names  *)
(* the step that comes next.  The reads at the head of the function (the      *)
(* guards, the resolution, the dry-run branch) are one step, each mutating    *)
(* call is a step of its own and may fail.                                   *)

\* git::has_uncommitted_changes: `git status --porcelain` prints something.
has_uncommitted_changes(changed) == changed /= {}

\* What `git add -A` puts in the index: every change but the modified content of
\* a submodule, which `git status` reports and no `git add` of the superproject
\* stages.
stageable(changed) == changed \ {"vendor/sub"}

\* A plausible slip: the commit is attempted whatever is staged.
commit_whatever_is_staged(staged_files) == TRUE

\* `if !staged_files.is_empty()`: lines 329, 365 and 376.
something_staged(staged_files) == staged_files /= {}

\* A plausible slip: the manifest is written whatever the action asks.
first_write_unconditional(needs_update) == "write_version"

\* The first mutating step: the manifest update, if the action asks for one.
first_write(needs_update) == IF needs_update THEN "write_version" ELSE "stage_all"

\* A plausible slip: the clean tree's guard placed after the staging.
next_pc_guard_after_staging(at, has_changes, is_pushed, needs_update) ==
    CASE at = "preflight"     -> first_write(needs_update)
      [] at = "head_check"    -> IF is_pushed THEN "message" ELSE "amend"
      [] at = "write_version" -> "sync_lockfile"
      [] at = "sync_lockfile" -> "stage_all"
      [] at = "stage_all"     -> IF has_changes THEN "message" ELSE "head_check"
      [] at = "message"       -> "commit"
      [] at = "commit"        -> "create_tag"
      [] at = "amend"         -> "create_tag"
      [] at = "create_tag"    -> "done"

\* A plausible slip: the commit message resolved before the branch on the push
\* state, as the dirty tree's branch does.
next_pc_message_before_branch(at, has_changes, is_pushed, needs_update) ==
    CASE at = "preflight"     -> IF has_changes THEN first_write(needs_update) ELSE "head_check"
      [] at = "head_check"    -> first_write(needs_update)
      [] at = "write_version" -> "sync_lockfile"
      [] at = "sync_lockfile" -> "stage_all"
      [] at = "stage_all"     -> "message"
      [] at = "message"       -> IF has_changes \/ is_pushed THEN "commit" ELSE "amend"
      [] at = "commit"        -> "create_tag"
      [] at = "amend"         -> "create_tag"
      [] at = "create_tag"    -> "done"

\* A plausible slip: on the amend path the tag made before the amend.
next_pc_tag_before_amend(at, has_changes, is_pushed, needs_update) ==
    CASE at = "preflight"     -> IF has_changes THEN first_write(needs_update) ELSE "head_check"
      [] at = "head_check"    -> first_write(needs_update)
      [] at = "write_version" -> "sync_lockfile"
      [] at = "sync_lockfile" -> "stage_all"
      [] at = "stage_all"     -> IF has_changes \/ is_pushed THEN "message" ELSE "create_tag"
      [] at = "message"       -> "commit"
      [] at = "commit"        -> "create_tag"
      [] at = "amend"         -> "done"
      [] at = "create_tag"    -> IF has_changes \/ is_pushed THEN "done" ELSE "amend"

\* The order of the steps of process_directory after its guards: `at` is the
\* step just done.
next_pc(at, has_changes, is_pushed, needs_update) ==
    CASE at = "preflight"     -> IF has_changes THEN first_write(needs_update) ELSE "head_check"
      [] at = "head_check"    -> first_write(needs_update)
      [] at = "write_version" -> "sync_lockfile"
      [] at = "sync_lockfile" -> "stage_all"
      [] at = "stage_all"     -> IF has_changes \/ is_pushed THEN "message" ELSE "amend"
      [] at = "message"       -> "commit"
      [] at = "commit"        -> "create_tag"
      [] at = "amend"         -> "create_tag"
      [] at = "create_tag"    -> "done"

\* A plausible slip: the dry-run branch prints and does not return.
dry_run_falls_through(c) == FALSE

\* The dry-run branch is taken: `if cli.dry_run { ...; return Ok(()) }`.
dry_run_returns(c) == c.dry_run

\* What the dry-run branch prints.
dry_run_lines(needs_update, has_changes) ==
    (IF needs_update THEN {"[dry-run] Would update: Cargo.toml"} ELSE {})
    \cup (IF ~has_changes /\ ~head_has_tag
          THEN IF head_is_pushed
               THEN {"[dry-run] Would create new commit and tag"}
               ELSE {"[dry-run] Would amend previous commit and tag"}
          ELSE {"[dry-run] Would commit and tag"})

\* What step 4 prints: the tag, or the transition.
display_line(act) == IF act.is_initial_tag THEN {"tag"} ELSE {"bump"}

Outcome(p, e, act, out, hc) ==
    [pc |-> p, error |-> e, action |-> act, output |-> out, has_changes |-> hc,
     member_list |-> << >>]

\* format!("  - {} ({}): {}", m.name, m.path, m.version)
member_line(m) == <<"  - ", m.name, " (", m.path, "): ", m.version>>

\* A plausible slip: the error names the first member only.
member_list_of_first(members) == << member_line(members[1]) >>

\* independent_members.iter().map(...).collect(): one line per member.
member_list_of(members) == [i \in 1 .. Len(members) |-> member_line(members[i])]

\* process_directory from its first line to the end of the dry-run branch, on
\* the directory as it stands, for command line c.
preflight(c) ==
    LET act     == determine_version_action(manifest_version, tags, bump_type_of(c),
                                            overflow_checks)
        new_tag == format_tag(act.target_version)
        has_changes == has_uncommitted_changes(changes)
    IN  IF ~is_git_repo THEN Outcome("failed", "Not a git repository", NoAction, {}, FALSE)
        ELSE IF ~cargo_toml_exists THEN Outcome("failed", "No Cargo.toml found", NoAction, {}, FALSE)
        ELSE IF independent_members /= << >> THEN
            [Outcome("failed", "Workspace members have independent versions", NoAction, {},
                     FALSE)
                EXCEPT !.member_list = member_list_of(independent_members)]
        ELSE IF act.kind = "Panic" THEN Outcome("panicked", act.err, act, {}, FALSE)
        ELSE IF act.kind = "Err" THEN Outcome("failed", act.err, act, {}, FALSE)
        ELSE IF tag_exists(tags, new_tag) THEN
            Outcome("failed", "Tag already exists", act, display_line(act), FALSE)
        ELSE IF dry_run_returns(c) THEN
            Outcome("done", "", act,
                    display_line(act) \cup dry_run_lines(act.needs_cargo_update, has_changes),
                    has_changes)
        ELSE Outcome(next_pc("preflight", has_changes, FALSE, act.needs_cargo_update),
                     "", act, display_line(act), has_changes)

CommandLines ==
    {Cli(f[1], f[2], d, m[1], m[2]) : f \in BumpFlags, d \in BOOLEAN, m \in MessageModes}

\* Lines 236-308: process_directory is called with command line c and goes
\* through its guards.
Run(c) ==
    /\ pc = "idle"
    /\ LET r == preflight(c) IN
        /\ cli' = c
        /\ pc' = r.pc
        /\ error' = r.error
        /\ action' = r.action
        /\ output' = r.output
        /\ ctx' = [ctx EXCEPT !.has_changes = r.has_changes]
        /\ member_list' = r.member_list
    /\ start' = Snapshot
    /\ UNCHANGED <<overflow_checks, dirvars, ops, commit_message, tag_message, fnvars,
                   outervars>>

\* A run of process_directory on its own, for any command line.
Preflight == \E c \in CommandLines : Run(c)

\* A plausible slip: only a pushed HEAD is guarded.
head_guard_only_when_pushed == head_has_tag /\ head_is_pushed

\* Line 343: `if git::head_has_tag(dir)? { bail!(...) }`
head_guard_fails == head_has_tag

\* A plausible slip: HEAD is taken for unpushed without asking git.
is_head_pushed_assumed_not == FALSE

\* git::is_head_pushed: HEAD has an upstream and is an ancestor of it.
is_head_pushed == head_is_pushed

\* Lines 343-348: the clean tree's guard, then the read of the push state.
HeadCheck ==
    /\ pc = "head_check"
    /\ IF head_guard_fails
       THEN /\ pc' = "failed"
            /\ error' = "HEAD already has a tag"
            /\ UNCHANGED ctx
       ELSE /\ pc' = next_pc("head_check", ctx.has_changes, is_head_pushed,
                             action.needs_cargo_update)
            /\ ctx' = [ctx EXCEPT !.is_pushed = is_head_pushed]
            /\ UNCHANGED error
    /\ UNCHANGED <<overflow_checks, dirvars, cli, action, ops, output, commit_message,
                   tag_message, start, member_list, fnvars, outervars>>

\* A mutating call failed: the run returns its error.
Fails(e) ==
    /\ pc' = "failed"
    /\ error' = e

Goes(at) ==
    /\ pc' = next_pc(at, ctx.has_changes, ctx.is_pushed, action.needs_cargo_update)
    /\ UNCHANGED error

\* Lines 316 and 352: cargo::write_version(&cargo_path, &new_cargo_version)
WriteVersion ==
    /\ pc = "write_version"
    /\ \/ /\ Goes("write_version")
          /\ ops' = Append(ops, "write_version")
          /\ manifest_version' = Some(format_cargo_version(action.target_version))
          /\ changes' = IF manifest_version' = manifest_version THEN changes
                        ELSE changes \cup {"Cargo.toml"}
       \/ /\ Fails("Failed to write Cargo.toml")
          /\ UNCHANGED <<ops, manifest_version, changes>>
    /\ UNCHANGED <<overflow_checks, is_git_repo, cargo_toml_exists, independent_members,
                   lockfile_exists, tags, head_has_tag, head_is_pushed, staged, commits,
                   amends, head_message, cli, action, output, commit_message, tag_message,
                   ctx, start, member_list, fnvars, outervars>>

\* Lines 318 and 354: cargo::sync_lockfile(dir): nothing without a lock file,
\* else `cargo update`, which rewrites the lock file or leaves it as it is.
SyncLockfile ==
    /\ pc = "sync_lockfile"
    /\ \/ /\ Goes("sync_lockfile")
          /\ ops' = Append(ops, "sync_lockfile")
          /\ \E rewritten \in (IF lockfile_exists THEN BOOLEAN ELSE {FALSE}) :
                changes' = IF rewritten THEN changes \cup {"Cargo.lock"} ELSE changes
       \/ /\ lockfile_exists
          /\ Fails("cargo update failed")
          /\ UNCHANGED <<ops, changes>>
    /\ UNCHANGED <<overflow_checks, is_git_repo, cargo_toml_exists, manifest_version,
                   independent_members, lockfile_exists, tags, head_has_tag, head_is_pushed,
                   staged, commits, amends, head_message, cli, action, output,
                   commit_message, tag_message, ctx, start, member_list, fnvars, outervars>>

\* Lines 322 and 358: git::stage_all(dir), `git add -A`.
StageAll ==
    /\ pc = "stage_all"
    /\ \/ /\ Goes("stage_all")
          /\ ops' = Append(ops, "stage_all")
          /\ staged' = stageable(changes)
       \/ /\ Fails("git add failed")
          /\ UNCHANGED <<ops, staged>>
    /\ UNCHANGED <<overflow_checks, is_git_repo, cargo_toml_exists, manifest_version,
                   independent_members, lockfile_exists, tags, head_has_tag, head_is_pushed,
                   changes, commits, amends, head_message, cli, action, output,
                   commit_message, tag_message, ctx, start, member_list, fnvars, outervars>>

\* Lines 325-326 and 359-363: the staged files and the commit message.
ResolveMessage ==
    /\ pc = "message"
    /\ \E typed \in EditorRuns :
        LET m == determine_commit_message(cli, format_tag(action.target_version), staged,
                                          action.is_initial_tag, typed)
        IN  IF m.kind = "Ok"
            THEN /\ Goes("message")
                 /\ commit_message' = Some(m.message)
            ELSE /\ Fails(m.err)
                 /\ UNCHANGED commit_message
    /\ UNCHANGED <<overflow_checks, dirvars, cli, action, ops, output, tag_message, ctx,
                   start, member_list, fnvars, outervars>>

\* Lines 329-332 and 365-368: git::commit if anything is staged.
Commit ==
    /\ pc = "commit"
    /\ IF something_staged(staged)
       THEN \/ /\ Goes("commit")
               /\ ops' = Append(ops, "commit")
               /\ commits' = commits + 1
               /\ changes' = changes \ staged
               /\ staged' = {}
               /\ head_has_tag' = FALSE
               /\ head_is_pushed' = FALSE
               /\ head_message' = Unwrap(commit_message)
            \/ /\ Fails("git commit failed")
               /\ UNCHANGED <<ops, commits, changes, staged, head_has_tag, head_is_pushed,
                              head_message>>
       ELSE /\ Goes("commit")
            /\ UNCHANGED <<ops, commits, changes, staged, head_has_tag, head_is_pushed,
                           head_message>>
    /\ UNCHANGED <<overflow_checks, is_git_repo, cargo_toml_exists, manifest_version,
                   independent_members, lockfile_exists, tags, amends, cli, action, output,
                   commit_message, tag_message, ctx, start, member_list, fnvars, outervars>>

\* Lines 376-379: git::amend_commit_no_edit if anything is staged;
\* `git commit --amend --no-edit` keeps the message of the commit it rewrites.
Amend ==
    /\ pc = "amend"
    /\ IF something_staged(staged)
       THEN \/ /\ Goes("amend")
               /\ ops' = Append(ops, "amend_commit_no_edit")
               /\ amends' = amends + 1
               /\ changes' = changes \ staged
               /\ staged' = {}
               /\ head_has_tag' = FALSE
            \/ /\ Fails("git commit --amend failed")
               /\ UNCHANGED <<ops, amends, changes, staged, head_has_tag>>
       ELSE /\ Goes("amend")
            /\ UNCHANGED <<ops, amends, changes, staged, head_has_tag>>
    /\ UNCHANGED <<overflow_checks, is_git_repo, cargo_toml_exists, manifest_version,
                   independent_members, lockfile_exists, tags, head_is_pushed, commits,
                   head_message, cli, action, output, commit_message, tag_message, ctx, start,
                   member_list, fnvars, outervars>>

\* The message of the tag: the commit's (lines 335, 370), or on the amend path
\* format!("Bump version to {}", new_tag) (line 382).
tag_message_of(new_tag) ==
    IF ctx.has_changes \/ ctx.is_pushed THEN Unwrap(commit_message)
    ELSE <<"Bump version to ", new_tag>>

\* Lines 335, 370 and 383: git::create_tag(dir, &new_tag, message)
CreateTag ==
    /\ pc = "create_tag"
    /\ LET new_tag == format_tag(action.target_version) IN
       \/ /\ Goes("create_tag")
          /\ ops' = Append(ops, "create_tag")
          /\ tags' = tags \cup {new_tag}
          /\ head_has_tag' = TRUE
          /\ tag_message' = Some(tag_message_of(new_tag))
       \/ /\ Fails("git tag failed")
          /\ UNCHANGED <<ops, tags, head_has_tag, tag_message>>
    /\ UNCHANGED <<overflow_checks, is_git_repo, cargo_toml_exists, manifest_version,
                   independent_members, lockfile_exists, head_is_pushed, changes, staged,
                   commits, amends, head_message, cli, action, output, commit_message, ctx,
                   start, member_list, fnvars, outervars>>

----------------------------------------------------------------------------
(* Spec: one run of process_directory on a directory *)

\* A member manifest: [package] with a name and the version key `version`.
PackageDoc(name, version) == MemberDoc(TRUE, Some(name), version)

\* The root manifests the runs start from: a plain package, and workspaces of
\* crate-a (inheriting) with crate-b, or crate-b and crate-c, versioned on their own.
RepoWorkspaces ==
    {NotAWorkspace,
     RootManifest(TRUE, Some(<<
        MemberEntry(TRUE, "crates/a", Some(PackageDoc("crate-a", DottedVersion))),
        MemberEntry(TRUE, "crates/b", Some(PackageDoc("crate-b", LiteralVersion("2.0.0"))))>>)),
     RootManifest(TRUE, Some(<<
        MemberEntry(TRUE, "crates/b", Some(PackageDoc("crate-b", LiteralVersion("2.0.0")))),
        MemberEntry(TRUE, "crates/c", Some(PackageDoc("crate-c", LiteralVersion("2.0.0"))))>>))}

\* The manifest versions and the tags the runs start from; one manifest version
\* is a pre-release, "0.1.1-alpha".
RepoFields ==
    {None, Some(format_cargo_version(<<0, 1, 0>>)), Some(format_cargo_version(<<0, 1, 1>>)),
     Some(format_cargo_version(<<0, 2, 0>>)), Some(VersionString(FALSE, <<0, 1, 1>>, "-alpha"))}

\* The working trees the runs start from: clean, the manifest or a source file
\* or both edited, or only a submodule's content modified.
RepoChanges ==
    {{}, {"Cargo.toml"}, {"src/main.rs"}, {"Cargo.toml", "src/main.rs"}, {"vendor/sub"}}

RepoTags ==
    {format_tag(<<0, 1, 1>>), VersionString(TRUE, <<0, 1, 1>>, "-alpha"),
     format_tag(<<0, 0, U64_MAX>>)}

Init ==
    /\ overflow_checks \in BOOLEAN
    /\ is_git_repo \in BOOLEAN
    /\ cargo_toml_exists \in BOOLEAN
    /\ manifest_version \in (IF cargo_toml_exists THEN RepoFields ELSE {None})
    /\ workspace \in (IF cargo_toml_exists THEN RepoWorkspaces ELSE {NotAWorkspace})
    /\ independent_members = check_workspace_independent_versions(workspace).members
    /\ lockfile_exists \in (IF cargo_toml_exists THEN BOOLEAN ELSE {FALSE})
    /\ tags \in (IF is_git_repo THEN SUBSET RepoTags ELSE {{}})
    /\ head_has_tag \in (IF is_git_repo THEN BOOLEAN ELSE {FALSE})
    /\ head_is_pushed \in (IF is_git_repo THEN BOOLEAN ELSE {FALSE})
    /\ changes \in (IF is_git_repo THEN RepoChanges ELSE {{}})
    /\ staged = {}
    /\ commits = 0
    /\ amends = 0
    /\ head_message = PreviousMessage
    /\ RunIdle
    /\ FnIdle
    /\ BatchIdle
    /\ prev = NoPrev

Next ==
    \/ Preflight
    \/ HeadCheck
    \/ WriteVersion
    \/ SyncLockfile
    \/ StageAll
    \/ ResolveMessage
    \/ Commit
    \/ Amend
    \/ CreateTag

Spec == Init /\ [][Next]_vars

----------------------------------------------------------------------------
(* SpecWorkspace: check_workspace_independent_versions on every root manifest *)
(* and every list of up to MaxMembers members                                 *)

\* The paths the members are declared with, and the names of their packages.
MemberPaths == <<"crates/a", "crates/b", "crates/c">>
MemberNames == <<"crate-a", "crate-b", "crate-c">>

\* The documents a member's Cargo.toml can be.
MemberDocs ==
    {Malformed, MemberDoc(FALSE, None, NoVersionKey)}
    \cup {MemberDoc(TRUE, name, version) :
            name \in {None} \cup {Some(MemberNames[i]) : i \in 1 .. 3}, version \in VersionItems}

\* What the i-th entry of `members` can be: a value that is no string, or the
\* i-th path, with no manifest there or with one.
Entries(i) ==
    {MemberEntry(FALSE, "", None), MemberEntry(TRUE, MemberPaths[i], None)}
    \cup {MemberEntry(TRUE, MemberPaths[i], Some(doc)) :
            doc \in {d \in MemberDocs : IsNone(d.name) \/ d.name = Some(MemberNames[i])}}

MemberLists ==
    UNION {{ms \in [1 .. n -> UNION {Entries(i) : i \in 1 .. n}] :
                \A i \in 1 .. n : ms[i] \in Entries(i)} : n \in 0 .. MaxMembers}

Workspaces ==
    {NotAWorkspace, RootManifest(TRUE, None)}
    \cup {RootManifest(TRUE, Some(ms)) : ms \in MemberLists}

InitWorkspace ==
    /\ overflow_checks \in BOOLEAN
    /\ DirPlain
    /\ RunIdle
    /\ FnIdle
    /\ BatchIdle
    /\ workspace \in Workspaces
    /\ prev = NoPrev

\* cargo::check_workspace_independent_versions(dir)
CallCheckWorkspace ==
    /\ pc = "idle"
    /\ pc' = "checked"
    /\ LET r == check_workspace_independent_versions(workspace) IN
        /\ independent_members' = r.members
        /\ error' = r.err
    /\ UNCHANGED <<overflow_checks, is_git_repo, cargo_toml_exists, manifest_version,
                   lockfile_exists, tags, head_has_tag, head_is_pushed, changes, staged,
                   commits, amends, head_message, cli, action, ops, output, commit_message,
                   tag_message, ctx, start, member_list, fnvars, outervars>>

NextWorkspace == CallCheckWorkspace

SpecWorkspace == InitWorkspace /\ [][NextWorkspace]_vars

----------------------------------------------------------------------------
(* SpecBatch: main, the loop over the directories of the command line.  Each  *)
(* directory is read as the loop finds it; process_directory runs on it step   *)
(* by step as in Spec.                                                         *)

\* The most directories a command line of the model names.
MaxDirs == 2

\* The command lines of the batches: every mode of dry run and message, the
\* default granularity.
BatchCommandLines ==
    {Cli(FALSE, FALSE, d, m[1], m[2]) : d \in BOOLEAN, m \in MessageModes}

Directory(repo, lock, field, tagset, tagged, pushed, changed) ==
    [is_git_repo |-> repo, lockfile_exists |-> lock, manifest_version |-> field,
     tags |-> tagset, head_has_tag |-> tagged, head_is_pushed |-> pushed,
     changes |-> changed]

\* The directories of the batches: one that is no repository; a package at 0.1.1
\* tagged v0.1.1 with a source file edited; a fresh package, clean and unpushed;
\* a package whose latest tag has the largest patch number; a clean package
\* whose HEAD is tagged.
BatchDirs ==
    {Directory(FALSE, FALSE, None, {}, FALSE, FALSE, {}),
     Directory(TRUE, TRUE, Some(format_cargo_version(<<0, 1, 1>>)), {format_tag(<<0, 1, 1>>)},
               FALSE, TRUE, {"src/main.rs"}),
     Directory(TRUE, FALSE, None, {}, FALSE, FALSE, {}),
     Directory(TRUE, FALSE, None, {format_tag(<<0, 0, U64_MAX>>)}, FALSE, FALSE,
               {"Cargo.toml"}),
     Directory(TRUE, FALSE, Some(format_cargo_version(<<0, 1, 1>>)), {format_tag(<<0, 1, 1>>)},
               TRUE, TRUE, {})}

\* The directories of the command line: none, or up to MaxDirs paths.
DirectoryLists ==
    UNION {[1 .. n -> BOOLEAN] : n \in 0 .. MaxDirs}

InitBatch ==
    /\ overflow_checks \in BOOLEAN
    /\ DirPlain
    /\ pc = "idle"
    /\ cli \in BatchCommandLines
    /\ action = NoAction
    /\ error = ""
    /\ ops = << >>
    /\ output = {}
    /\ commit_message = None
    /\ tag_message = None
    /\ ctx = NoCtx
    /\ start = NoStart
    /\ member_list = << >>
    /\ FnIdle
    /\ directories \in DirectoryLists
    /\ index = 1
    /\ successes = 0
    /\ failures = 0
    /\ processed = << >>
    /\ main_pc = "start"
    /\ exit_status = None
    /\ workspace = NotAWorkspace
    /\ prev = NoPrev

\* The process ends with status code.
Exits(code) ==
    /\ main_pc' = "exited"
    /\ exit_status' = Some(code)

\* Lines 408-412: with no directory given the current directory is the one to
\* process; env::current_dir() may fail, and main returns the error.
MainStart ==
    /\ main_pc = "start"
    /\ IF directories = << >>
       THEN \/ /\ directories' = << TRUE >>
               /\ main_pc' = "loop"
               /\ UNCHANGED exit_status
            \/ /\ Exits(1)
               /\ UNCHANGED directories
       ELSE /\ main_pc' = "loop"
            /\ UNCHANGED <<directories, exit_status>>
    /\ UNCHANGED <<overflow_checks, dirvars, runvars, fnvars, index, successes, failures,
                   processed, workspace, prev>>

\* Lines 417-428: the next directory; a relative path is joined to
\* env::current_dir()?, which may fail, and main returns the error.  The
\* directory is read as it stands.
EnterDirectory ==
    /\ main_pc = "loop"
    /\ index <= Len(directories)
    /\ \/ /\ main_pc' = "call"
          /\ \E d \in BatchDirs :
                /\ is_git_repo' = d.is_git_repo
                /\ lockfile_exists' = d.lockfile_exists
                /\ manifest_version' = d.manifest_version
                /\ tags' = d.tags
                /\ head_has_tag' = d.head_has_tag
                /\ head_is_pushed' = d.head_is_pushed
                /\ changes' = d.changes
          /\ cargo_toml_exists' = TRUE
          /\ independent_members' = << >>
          /\ staged' = {}
          /\ commits' = 0
          /\ amends' = 0
          /\ head_message' = PreviousMessage
          /\ pc' = "idle"
          /\ action' = NoAction
          /\ error' = ""
          /\ ops' = << >>
          /\ output' = {}
          /\ commit_message' = None
          /\ tag_message' = None
          /\ ctx' = NoCtx
          /\ start' = NoStart
          /\ member_list' = << >>
          /\ UNCHANGED exit_status
       \/ /\ ~directories[index]
          /\ Exits(1)
          /\ UNCHANGED <<dirvars, pc, action, error, ops, output, commit_message,
                         tag_message, ctx, start, member_list>>
    /\ UNCHANGED <<overflow_checks, cli, fnvars, directories, index, successes, failures,
                   processed, workspace, prev>>

\* Line 430: process_directory(&dir, &cli, bump_type)
ProcessDirectory ==
    /\ main_pc = "call"
    /\ Run(cli)

\* How a finished run of process_directory comes back to main.
returned(at) ==
    CASE at = "done"     -> "Ok"
      [] at = "failed"   -> "Err"
      [] at = "panicked" -> "Panic"

\* Lines 430-435: the match on the result; a panic unwinds through main and the
\* process exits with status 101.
Return ==
    /\ main_pc = "call"
    /\ pc \in {"done", "failed", "panicked"}
    /\ processed' = Append(processed, [dir |-> index, result |-> returned(pc)])
    /\ CASE pc = "done" ->
                /\ successes' = successes + 1
                /\ main_pc' = "loop"
                /\ index' = index + 1
                /\ UNCHANGED <<failures, exit_status>>
         [] pc = "failed" ->
                /\ failures' = failures + 1
                /\ main_pc' = "loop"
                /\ index' = index + 1
                /\ UNCHANGED <<successes, exit_status>>
         [] pc = "panicked" ->
                /\ Exits(101)
                /\ UNCHANGED <<successes, failures, index>>
    /\ UNCHANGED <<overflow_checks, dirvars, runvars, fnvars, directories, workspace, prev>>

\* Lines 446-450: `if failures > 0 && successes == 0 { std::process::exit(1) }`,
\* else Ok(()).
exit_code(succeeded, failed) == IF failed > 0 /\ succeeded = 0 THEN 1 ELSE 0

\* Lines 437-450: the loop is over.
LoopEnd ==
    /\ main_pc = "loop"
    /\ index > Len(directories)
    /\ Exits(exit_code(successes, failures))
    /\ UNCHANGED <<overflow_checks, dirvars, runvars, fnvars, directories, index, successes,
                   failures, processed, workspace, prev>>

NextBatch ==
    \/ MainStart
    \/ EnterDirectory
    \/ ProcessDirectory
    \/ HeadCheck
    \/ WriteVersion
    \/ SyncLockfile
    \/ StageAll
    \/ ResolveMessage
    \/ Commit
    \/ Amend
    \/ CreateTag
    \/ Return
    \/ LoopEnd

SpecBatch == InitBatch /\ [][NextBatch]_vars

----------------------------------------------------------------------------
(* SpecRerun: a run of process_directory that ends or is interrupted, and a    *)
(* second run on the directory as the first one left it                       *)

InitRerun ==
    /\ Init
    /\ is_git_repo /\ cargo_toml_exists
    /\ workspace = NotAWorkspace

\* The run is over (it returned, it panicked, or the process was killed where it
\* stood) and bump is started again in the same directory.
Rerun ==
    /\ pc /= "idle"
    /\ ~prev.ran
    /\ prev' = [ran |-> TRUE, ops |-> ops, target_version |-> action.target_version,
                manifest_version |-> start.manifest_version, tags |-> start.tags]
    /\ pc' = "idle"
    /\ cli' = NoCli
    /\ action' = NoAction
    /\ error' = ""
    /\ ops' = << >>
    /\ output' = {}
    /\ commit_message' = None
    /\ tag_message' = None
    /\ ctx' = NoCtx
    /\ start' = NoStart
    /\ member_list' = << >>
    /\ UNCHANGED <<overflow_checks, dirvars, fnvars, batchvars, workspace>>

NextRerun ==
    \/ Next
    \/ Rerun

SpecRerun == InitRerun /\ [][NextRerun]_vars

----------------------------------------------------------------------------
(* What the claims speak of *)

\* The manifest has a version m (a plain "x.y.z").
HasM == IsSome(manifest_version) /\ manifest_version[1].tail = ""
M    == manifest_version[1].core

\* The repository has version tags, the highest of them t.
HasT == \E x \in tags : x.tail = ""
T    == CHOOSE c \in {x.core : x \in tags} :
            \A d \in {x.core : x \in tags} : ~VersionLess(c, d)

G    == bump_type_of(cli)

\* The bump of the specification, on the integers: Major (major+1, 0, 0),
\* Minor (major, minor+1, 0), Patch (major, minor, patch+1).
IntBump(v, g) ==
    CASE g = "Major" -> <<v[1] + 1, 0, 0>>
      [] g = "Minor" -> <<v[1], v[2] + 1, 0>>
      [] g = "Patch" -> <<v[1], v[2], v[3] + 1>>

Resolved == pc = "resolved"

----------------------------------------------------------------------------
(* C1 - C5: the decision table of determine_version_action (SpecResolve) *)

\* C1: with manifest version m and latest tag version t both present,
\* m /= 0.1.0 and m /= t (m lower or higher than t), for every granularity the
\* result is the VersionMismatch error, no VersionAction, and the error names m
\* in manifest form and t in tag form.
C1_MismatchFailsClosed ==
    (Resolved /\ HasM /\ HasT /\ M /= <<0, 1, 0>> /\ M /= T)
        => /\ action.kind = "Err"
           /\ action.err = "VersionMismatch"
           /\ action.names = <<VersionString(FALSE, M, ""), VersionString(TRUE, T, "")>>

\* C1's case: manifest 0.2.0 above the latest tag v0.1.2, a minor bump asked for.
C1_Witness ==
    /\ Resolved /\ HasM /\ HasT
    /\ M = <<0, 2, 0>> /\ T = <<0, 1, 2>> /\ G = "Minor"
    /\ action.err = "VersionMismatch"

\* C2: with a latest tag version t and the manifest version absent or exactly
\* 0.1.0, the call succeeds for every t and every granularity g with
\* target_version = bump(t, g), needs_manifest_update and not is_initial_tag.
C2_DefersToTag ==
    (Resolved /\ HasT /\ (~HasM \/ M = <<0, 1, 0>>))
        => /\ action.kind = "Ok"
           /\ action.target_version = IntBump(T, G)
           /\ action.needs_cargo_update = TRUE
           /\ action.is_initial_tag = FALSE

\* C3: with m and t both present, m /= 0.1.0 and m = t, the call succeeds with
\* target_version = bump(m, g), needs_manifest_update and not is_initial_tag.
C3_MatchingBumps ==
    (Resolved /\ HasM /\ HasT /\ M /= <<0, 1, 0>> /\ M = T)
        => /\ action.kind = "Ok"
           /\ action.target_version = IntBump(M, G)
           /\ action.needs_cargo_update = TRUE
           /\ action.is_initial_tag = FALSE

\* C4: with the manifest version m present (0.1.0 or not) and no tag, the call
\* succeeds with target_version = m whatever the granularity, no manifest update,
\* and is_initial_tag.
C4_InitialTagFromManifest ==
    (Resolved /\ HasM /\ tags = {})
        => /\ action.kind = "Ok"
           /\ action.target_version = M
           /\ action.needs_cargo_update = FALSE
           /\ action.is_initial_tag = TRUE

\* C4's case: manifest 1.2.0, no tag, a major bump asked for and not applied.
C4_Witness ==
    /\ Resolved /\ HasM /\ tags = {}
    /\ M = <<1, 2, 0>> /\ G = "Major"
    /\ action.kind = "Ok" /\ action.target_version = <<1, 2, 0>>

\* C5: with no manifest version and no tag, the call succeeds for every
\* granularity with target_version = 0.1.0, a manifest update, and is_initial_tag.
C5_StartsAtDefault ==
    (Resolved /\ IsNone(manifest_version) /\ tags = {})
        => /\ action.kind = "Ok"
           /\ action.target_version = <<0, 1, 0>>
           /\ action.needs_cargo_update = TRUE
           /\ action.is_initial_tag = TRUE

\* C5's case: nothing recorded anywhere, a major bump asked for.
C5_Witness ==
    /\ Resolved /\ IsNone(manifest_version) /\ tags = {} /\ G = "Major"
    /\ action.kind = "Ok" /\ action.target_version = <<0, 1, 0>>

----------------------------------------------------------------------------
(* C6: bump_version (SpecVersion) *)

BumpReturned == call.fn = "bump_version" /\ ret.kind /= "None"

\* C6: for every version v and granularity g, bump_version(v, g) is strictly
\* greater than v in the order of the triples, and is (major+1, 0, 0) for Major,
\* (major, minor+1, 0) for Minor, (major, minor, patch+1) for Patch; no
\* wrap-around to a smaller version.
C6_BumpStrictlyGreater ==
    BumpReturned
        => /\ ret.kind = "Ok"
           /\ VersionLess(call.version, ret.version)
           /\ ret.version = IntBump(call.version, call.bump_type)

----------------------------------------------------------------------------
(* C7 - C10: process_directory, its guards and its dry run (Spec) *)

Finished == pc \in {"done", "failed", "panicked"}

Mutations == {"write_version", "sync_lockfile", "stage_all", "commit",
              "amend_commit_no_edit", "create_tag"}

Executed(op) == \E i \in 1 .. Len(ops) : ops[i] = op

\* C7: a run with the dry-run flag executes none of write_version,
\* sync_lockfile, stage_all, commit, amend_commit_no_edit, create_tag, whatever
\* the repository state and the VersionAction: manifest, index, commits and tags
\* are after the run what they were before it.
C7_DryRunMutatesNothing ==
    (pc /= "idle" /\ cli.dry_run)
        => /\ \A op \in Mutations : ~Executed(op)
           /\ Snapshot = start

\* C7's case: a dry run that ended well on a dirty tree, for an action that
\* asks for a manifest update.
C7_Witness ==
    /\ pc = "done" /\ cli.dry_run
    /\ action.kind = "Ok" /\ action.needs_cargo_update
    /\ ctx.has_changes
    /\ "[dry-run] Would update: Cargo.toml" \in output

\* The error a run without the dry-run flag returns from its guards on the
\* directory as it stands ("" when it passes them all).
real_guard_error(c) ==
    LET r == preflight([c EXCEPT !.dry_run = FALSE]) IN
    IF r.pc \in {"failed", "panicked"} THEN r.error
    ELSE IF r.pc = "head_check" /\ head_guard_fails THEN "HEAD already has a tag"
    ELSE ""

\* C8: a dry run fails if and only if the same run without the flag would fail
\* on a precondition or resolution check (not a git repository, no manifest,
\* independent workspace versions, VersionMismatch, tag already exists, clean
\* HEAD already tagged), and with the same error.
C8_DryRunSurfacesSameErrors ==
    (Finished /\ cli.dry_run) => error = real_guard_error(cli)

GuardErrors ==
    {"Not a git repository", "No Cargo.toml found",
     "Workspace members have independent versions", "VersionMismatch",
     "Tag already exists", "HEAD already has a tag"}

\* C9: whenever the run fails on a guard (not under version control, manifest
\* missing, independent workspace versions, VersionMismatch, target tag exists,
\* clean HEAD already tagged), none of the mutating operations has been executed
\* in that run, and the directory is as the run found it.
C9_GuardsBeforeWrites ==
    (pc = "failed" /\ error \in GuardErrors)
        => /\ ops = << >>
           /\ Snapshot = start

\* C9's case: the last of the guards, the clean tree's, fails a run whose next
\* step was the manifest update.
C9_Witness ==
    /\ pc = "failed" /\ error = "HEAD already has a tag"
    /\ ~cli.dry_run /\ action.needs_cargo_update
    /\ ops = << >>

NoCommitNoTag ==
    /\ ~Executed("commit") /\ ~Executed("amend_commit_no_edit") /\ ~Executed("create_tag")
    /\ commits = start.commits /\ amends = start.amends /\ tags = start.tags

\* The run is past line 290: no dry run, the guards of lines 241-287 passed (the
\* resolver returned a VersionAction, its tag did not exist), and
\* has_uncommitted_changes was read.
InWorkflow ==
    /\ pc /= "idle"
    /\ ~cli.dry_run
    /\ action.kind = "Ok"
    /\ format_tag(action.target_version) \notin start.tags

\* C10: a run without the dry-run flag that read has_uncommitted_changes = false
\* and whose HEAD carries a tag fails with the HEAD-already-tagged error, whatever
\* head_is_pushed and the VersionAction: it executes nothing, creates no commit
\* and no tag, and its only end is that failure.
C10_CleanTaggedHeadFails ==
    (InWorkflow /\ ~ctx.has_changes /\ start.head_has_tag)
        => /\ ops = << >>
           /\ NoCommitNoTag
           /\ pc \in {"head_check", "failed"}
           /\ pc = "failed" => error = "HEAD already has a tag"

\* C10's case: HEAD tagged and pushed, the tree clean, an action that asks for
\* a manifest update, and the run failed.
C10_Witness ==
    /\ InWorkflow /\ ~ctx.has_changes /\ start.head_has_tag /\ start.head_is_pushed
    /\ action.needs_cargo_update
    /\ pc = "failed" /\ error = "HEAD already has a tag"

----------------------------------------------------------------------------
(* C11 - C13: the steps of process_directory after its guards (Spec) *)

\* C11: in a run without the dry-run flag on a clean tree with an untagged HEAD,
\* head_is_pushed alone decides between commit and amend: with HEAD pushed the
\* run never calls amend_commit_no_edit and a changed manifest goes into a new
\* commit; with HEAD not pushed the run never calls commit and a changed
\* manifest is folded into the previous commit; no pushed commit is rewritten.
C11_PushStateDecidesCommitOrAmend ==
    (InWorkflow /\ ~ctx.has_changes /\ ~start.head_has_tag)
        => /\ start.head_is_pushed
                => /\ ~Executed("amend_commit_no_edit")
                   /\ amends = start.amends
                   /\ (pc = "done" /\ manifest_version /= start.manifest_version)
                        => Executed("commit") /\ commits = start.commits + 1
           /\ ~start.head_is_pushed
                => /\ ~Executed("commit")
                   /\ commits = start.commits
                   /\ (pc = "done" /\ manifest_version /= start.manifest_version)
                        => Executed("amend_commit_no_edit") /\ amends = start.amends + 1

\* C11's case: HEAD pushed and untagged, the tree clean, the manifest updated:
\* the run ended with a new commit and no amend.
C11_Witness ==
    /\ InWorkflow /\ ~ctx.has_changes /\ ~start.head_has_tag /\ start.head_is_pushed
    /\ pc = "done"
    /\ manifest_version /= start.manifest_version
    /\ Executed("commit") /\ ~Executed("amend_commit_no_edit")

\* a is an initial segment of b.
IsPrefix(a, b) == Len(a) <= Len(b) /\ SubSeq(b, 1, Len(a)) = a

\* The operations of the dirty tree's branch, all of them, in order.
DirtyOrder(needs_update, committed) ==
    (IF needs_update THEN <<"write_version", "sync_lockfile">> ELSE << >>)
    \o <<"stage_all">>
    \o (IF committed THEN <<"commit">> ELSE << >>)
    \o <<"create_tag">>

\* C12: in a run without the dry-run flag on a dirty tree the operations come in
\* this order and no other: write_version (only if needs_manifest_update) then
\* sync_lockfile, stage_all, the commit message, commit (only if a file is
\* staged, and then always), create_tag; no tag before the commit, no manifest
\* write after the staging.
C12_DirtyTreeOrder ==
    /\ [] ((InWorkflow /\ ctx.has_changes)
            => /\ \E committed \in BOOLEAN :
                    IsPrefix(ops, DirtyOrder(action.needs_cargo_update, committed))
               /\ IsSome(commit_message) => Executed("stage_all")
               /\ Executed("commit") => IsSome(commit_message)
               /\ Executed("create_tag") => IsSome(commit_message)
               /\ ~Executed("amend_commit_no_edit"))
    /\ [][(pc = "commit" /\ ctx.has_changes)
            => /\ (ops' = Append(ops, "commit")) => staged /= {}
               /\ (staged /= {} /\ pc' = "create_tag") => ops' = Append(ops, "commit")
               /\ (staged = {}) => (ops' = ops /\ pc' = "create_tag")]_vars

\* C12's case: a dirty tree, an action that asks for a manifest update, and the
\* run went through all five operations.
C12_Witness ==
    /\ InWorkflow /\ ctx.has_changes /\ action.needs_cargo_update
    /\ pc = "done"
    /\ ops = <<"write_version", "sync_lockfile", "stage_all", "commit", "create_tag">>

\* The run ended in a failure that was reported: process_directory returned an
\* error, or the process panicked with its message.
ReportedFailure == pc \in {"failed", "panicked"} /\ error /= ""

\* The run ended in success with its tag created.
SucceededWithTag ==
    /\ pc = "done" /\ error = ""
    /\ Executed("create_tag")
    /\ format_tag(action.target_version) \in tags
    /\ format_tag(action.target_version) \notin start.tags

\* C13, as claimed: every run without the dry-run flag ends in a reported failure
\* or in success where a commit or an amend was performed and the tag
\* format_tag(target_version) was created; a successful run has always performed
\* a commit or an amend.
C13_SuccessAlwaysCommitsOrAmends ==
    (Finished /\ ~cli.dry_run)
        => \/ ReportedFailure
           \/ /\ SucceededWithTag
              /\ Executed("commit") \/ Executed("amend_commit_no_edit")

\* C13, amended: every run without the dry-run flag ends in a reported failure
\* or in success with the tag format_tag(target_version) created; a successful run performed one
\* commit or one amend if it changed the manifest or found changes that can be
\* staged, and neither of them if the tree was clean and the action asked for no
\* manifest update.
C13_SuccessCommitsWhatIsStaged ==
    (Finished /\ ~cli.dry_run)
        => \/ ReportedFailure
           \/ /\ SucceededWithTag
              /\ ~(Executed("commit") /\ Executed("amend_commit_no_edit"))
              /\ (manifest_version /= start.manifest_version \/ stageable(start.changes) /= {})
                    => Executed("commit") \/ Executed("amend_commit_no_edit")
              /\ (~action.needs_cargo_update /\ ~ctx.has_changes)
                    => ~Executed("commit") /\ ~Executed("amend_commit_no_edit")

\* C13's case: a manifest version never tagged, a clean tree, HEAD untagged: the
\* run ended in success with the tag on HEAD and no commit and no amend.
C13_Witness ==
    /\ ~cli.dry_run /\ SucceededWithTag
    /\ ~action.needs_cargo_update /\ ~ctx.has_changes
    /\ ops = <<"stage_all", "create_tag">>

----------------------------------------------------------------------------
(* C14: determine_commit_message (SpecMessage) *)

MessageReturned == pc = "message_returned"

NewTag == format_tag(action.target_version)

\* Every staged file is the manifest or its lock file.
OnlyCargoFiles == staged \subseteq {"Cargo.toml", "Cargo.lock"}

\* The editor is the only way left: no explicit message, no automatic flag, and
\* a staged file that is neither the manifest nor its lock file.
InteractiveFallback == IsNone(cli.message) /\ ~cli.automatic /\ ~OnlyCargoFiles

\* C14: determine_commit_message takes the first that applies of: (1) the
\* explicit message, verbatim, whatever the other inputs; (2) with the automatic
\* flag "Bump version to {tag}"; (3) with no staged file "Release {tag}"; (4)
\* with only the manifest and its lock file staged "Release {tag}" for an initial
\* tag and "Bump version to {tag}" otherwise; (5) the editor, consulted only when
\* none of 1-4 applies; only that path fails.
C14_MessagePriority ==
    MessageReturned
        => /\ IsSome(cli.message)
                => ret = MessageOk(<<Unwrap(cli.message)>>)
           /\ (IsNone(cli.message) /\ cli.automatic)
                => ret = MessageOk(<<"Bump version to ", NewTag>>)
           /\ (IsNone(cli.message) /\ ~cli.automatic /\ staged = {})
                => ret = MessageOk(<<"Release ", NewTag>>)
           /\ (IsNone(cli.message) /\ ~cli.automatic /\ staged /= {} /\ OnlyCargoFiles)
                => ret = MessageOk(<<(IF action.is_initial_tag THEN "Release "
                                      ELSE "Bump version to "), NewTag>>)
           /\ ret.editor <=> InteractiveFallback
           /\ ret.kind = "Err" => ret.editor

\* C14's case: the manifest and the lock file staged for an initial tag, no
\* message and no flag given: "Release v1.2.0", and no editor.
C14_Witness ==
    /\ MessageReturned
    /\ IsNone(cli.message) /\ ~cli.automatic
    /\ staged = {"Cargo.toml", "Cargo.lock"} /\ action.is_initial_tag
    /\ ret = MessageOk(<<"Release ", format_tag(<<1, 2, 0>>)>>)

----------------------------------------------------------------------------
(* C15: the empty commit message (Spec) *)

CommitAborted == pc = "failed" /\ error = "Aborting commit due to empty commit message"

\* C15: when the message that comes back from the editor is empty once the
\* comment lines are dropped and the rest is trimmed, the run fails with the
\* commit-aborted error; the changes are then staged and no commit and no tag
\* has been created; the failure comes only on the interactive path (no explicit
\* message, no automatic flag, a staged file beyond manifest and lock file).
C15_EmptyMessageAborts ==
    /\ [] (CommitAborted
            => /\ Executed("stage_all")
               /\ staged /= {} /\ staged = stageable(changes)
               /\ NoCommitNoTag
               /\ InteractiveFallback)
    /\ [][(pc = "message" /\ InteractiveFallback /\ pc' = "commit")
            => (IsSome(commit_message') /\ Unwrap(commit_message') /= << >>)]_vars

\* C15's case: a source file edited, the manifest updated, no message and no
\* flag given, and the editor left empty: the run stopped after the staging.
C15_Witness ==
    /\ CommitAborted
    /\ ops = <<"write_version", "sync_lockfile", "stage_all">>
    /\ staged = {"Cargo.toml", "src/main.rs"}
    /\ NoCommitNoTag

----------------------------------------------------------------------------
(* C16, C17: the loop of main and the exit status (SpecBatch) *)

Exited == main_pc = "exited"

\* The directories handed to process_directory so far, in the order of the calls.
ProcessedDirs == [i \in 1 .. Len(processed) |-> processed[i].dir]

\* C16: the loop of main processes every directory once, in the order given,
\* whatever became of the earlier ones: when the process ends, the directories
\* processed are the first, the second, ... the last; every directory has
\* incremented one of the two counters, and successes + failures is the number
\* of directories.
C16_EveryDirectoryProcessedOnce ==
    /\ successes + failures <= Len(directories)
    /\ Exited
        => /\ ProcessedDirs = [i \in 1 .. Len(directories) |-> i]
           /\ successes + failures = Len(directories)
           /\ \A i \in 1 .. Len(processed) : processed[i].result \in {"Ok", "Err"}

\* C17: the process exits with a failure status if and only if every processed
\* directory failed (failures > 0 and successes = 0); with a directory that
\* succeeded it exits with success, whatever became of the others.
C17_FailsOnlyWhenAllFailed ==
    (Exited /\ processed /= << >>)
        => /\ exit_status /= Some(0)
                <=> (\A i \in 1 .. Len(processed) : processed[i].result /= "Ok")
           /\ successes > 0 => exit_status = Some(0)
           /\ (failures > 0 /\ successes = 0) => exit_status /= Some(0)

----------------------------------------------------------------------------
(* C18: the guard on the workspace members (Spec) *)

\* The check of the members returned a list that is not empty to a run that had
\* passed the two guards before it.
MembersReturned ==
    /\ pc /= "idle"
    /\ is_git_repo /\ cargo_toml_exists
    /\ independent_members /= << >>

\* C18: when check_workspace_independent_versions returns a list that is not
\* empty, process_directory fails before the version is resolved and before any
\* mutation, and the error lists every member returned, with its name, its path
\* and its version.
C18_IndependentMembersFailFirst ==
    MembersReturned
        => /\ pc = "failed"
           /\ error = "Workspace members have independent versions"
           /\ action = NoAction /\ output = {}
           /\ ops = << >> /\ Snapshot = start
           /\ Len(member_list) = Len(independent_members)
           /\ \A i \in 1 .. Len(independent_members) :
                LET m == independent_members[i] IN
                member_list[i] = <<"  - ", m.name, " (", m.path, "): ", m.version>>

\* C18's case: two members with versions of their own, both named by the error.
C18_Witness ==
    /\ MembersReturned /\ pc = "failed"
    /\ member_list = << <<"  - ", "crate-b", " (", "crates/b", "): ", "2.0.0">>,
                         <<"  - ", "crate-c", " (", "crates/c", "): ", "2.0.0">> >>

----------------------------------------------------------------------------
(* C19: check_workspace_independent_versions (SpecWorkspace) *)

Checked == pc = "checked"

\* The members the root manifest declares (none without a list of members).
Declared ==
    IF workspace.has_workspace /\ IsSome(workspace.members) THEN Unwrap(workspace.members)
    ELSE << >>

\* The entry names a member whose manifest exists and whose version field is
\* present and a literal version.
HasOwnVersion(entry) ==
    /\ entry.is_str
    /\ IsSome(entry.manifest)
    /\ Unwrap(entry.manifest).package
    /\ Unwrap(entry.manifest).version.kind = "string"

\* The check stopped on a member manifest it could not parse.
CheckFailed == \E i \in 1 .. Len(Declared) : member_fails(Declared[i])

\* C19: check_workspace_independent_versions returns the declared members whose
\* manifest exists and whose version field is present and a literal version, no
\* others, each with its name, its declared path and its version: nothing for a
\* manifest that is no workspace and for a workspace without a list of members;
\* a member whose manifest is missing is skipped without error; a member with no
\* version field and a member inheriting the workspace's version are not flagged.
C19_ExactlyTheIndependentMembers ==
    Checked
        => LET own == SelectSeq(Declared, HasOwnVersion) IN
           /\ error /= "" <=> CheckFailed
           /\ error = ""
                => /\ Len(independent_members) = Len(own)
                   /\ \A i \in 1 .. Len(own) :
                        LET doc == Unwrap(own[i].manifest) IN
                        /\ independent_members[i].path = own[i].path
                        /\ independent_members[i].version = doc.version.text
                        /\ IsSome(doc.name) => independent_members[i].name = Unwrap(doc.name)

\* C19's case: crate-a inherits the workspace's version, crate-b has
\* version = "2.0.0": the check returns crate-b alone.
C19_Witness ==
    /\ Checked /\ error = ""
    /\ Len(Declared) = 2
    /\ Declared[1] = MemberEntry(TRUE, "crates/a",
                                  Some(MemberDoc(TRUE, Some("crate-a"), DottedVersion)))
    /\ independent_members = << IndependentVersionMember("crate-b", "crates/b", "2.0.0") >>

----------------------------------------------------------------------------
(* C20: the run after a run that stopped (SpecRerun) *)

\* The run before this one wrote the manifest and stopped before its tag.
StoppedAfterWrite ==
    /\ prev.ran
    /\ \E i \in 1 .. Len(prev.ops) : prev.ops[i] = "write_version"
    /\ \A i \in 1 .. Len(prev.ops) : prev.ops[i] /= "create_tag"

\* This run is past its first three guards and the resolution of the version.
PastResolution ==
    /\ pc /= "idle"
    /\ error \notin {"Not a git repository", "No Cargo.toml found",
                      "Workspace members have independent versions"}

\* The version tags this run found, and the highest of them.
FoundT == \E x \in start.tags : x.tail = ""
StartT == CHOOSE c \in {x.core : x \in {y \in start.tags : y.tail = ""}} :
            \A d \in {x.core : x \in {y \in start.tags : y.tail = ""}} : ~VersionLess(c, d)

\* C20: a run on the directory left by a run without the dry-run flag that
\* stopped after write_version and before create_tag (the commit made or not)
\* fails with VersionMismatch or tag-already-exists, or goes on to release the
\* manifest's own version (no tags) or one bump of the latest tag; it never bumps
\* on top of the version the stopped run wrote and did not publish.
C20_RerunDoesNotStackBumps ==
    (StoppedAfterWrite /\ PastResolution)
        => \/ pc = "failed" /\ error \in {"VersionMismatch", "Tag already exists"}
           \/ /\ action.kind = "Ok"
              /\ ~FoundT
              /\ IsSome(start.manifest_version)
              /\ action.target_version = start.manifest_version[1].core
           \/ /\ action.kind = "Ok"
              /\ FoundT
              /\ action.target_version = IntBump(StartT, G)

----------------------------------------------------------------------------
(* C21: versions with a pre-release or build-metadata part (Spec) *)

\* The text has a pre-release or build-metadata part after its x.y.z.
HasSuffix(text) == text.tail /= ""

\* The run got to the resolution of the version and found a manifest version, or
\* a latest tag, with a pre-release or build-metadata part.
FoundSuffix ==
    /\ pc /= "idle"
    /\ is_git_repo /\ cargo_toml_exists /\ independent_members = << >>
    /\ \/ IsSome(start.manifest_version) /\ HasSuffix(Unwrap(start.manifest_version))
       \/ IsSome(get_latest_tag(start.tags)) /\ HasSuffix(Unwrap(get_latest_tag(start.tags)))

\* C21: when the manifest's version (or the latest tag) carries a pre-release or
\* build-metadata part, the run reports an error, and neither writes the manifest
\* nor creates a tag.
C21_PreReleaseRejected ==
    FoundSuffix
        => /\ Finished => (pc = "failed" /\ error /= "")
           /\ ~Executed("write_version") /\ ~Executed("create_tag")
           /\ manifest_version = start.manifest_version
           /\ tags = start.tags

----------------------------------------------------------------------------
(* C22, C23, C25: parse_version, the two formats and from_cli (SpecVersion) *)

ParseReturned == call.fn = "parse_version" /\ ret.kind /= "None"

\* C22: parse_version returns an error for every string with a pre-release part
\* (1.0.0-alpha) or a build-metadata part (1.0.0+build123), with or without a
\* leading v, and returns the triple (major, minor, patch) for every plain x.y.z
\* or vx.y.z.
C22_ParseRejectsSuffixes ==
    ParseReturned
        => /\ call.text.tail = "-alpha"
                => ret.kind = "Err" /\ ret.err = "Pre-release versions are not supported"
           /\ call.text.tail = "+build"
                => ret.kind = "Err" /\ ret.err = "Build metadata versions are not supported"
           /\ call.text.tail = ""
                => ret.kind = "Ok" /\ ret.version = call.text.core

\* C22's case: v1.0.0+build is refused for its build metadata.
C22_Witness ==
    /\ ParseReturned
    /\ call.text = VersionString(TRUE, <<1, 0, 0>>, "+build")
    /\ ret.kind = "Err" /\ ret.err = "Build metadata versions are not supported"

\* The call's argument is what an earlier call of a format returned (or what
\* parse_version made of it).
Chained == IsSome(call.origin) /\ ret.kind /= "None"

FormatReturned == call.fn \in Formats /\ ret.kind /= "None"

FromCliReturned == call.fn = "from_cli" /\ ret.kind /= "None"

\* C25: BumpType::from_cli returns Patch when neither major nor minor is asked
\* for, Major when only major is, Minor when only minor is; Major and Minor never
\* both take effect: the command line with --major and --minor is rejected, and
\* from_cli(true, true) gives Major.
C25_FromCliSelectsOne ==
    FromCliReturned
        => /\ (~call.major /\ ~call.minor) => ret.bump_type = "Patch"
           /\ (call.major /\ ~call.minor) => ret.bump_type = "Major"
           /\ (~call.major /\ call.minor) => ret.bump_type = "Minor"
           /\ (call.major /\ call.minor)
                => /\ ret.bump_type = "Major"
                   /\ <<call.major, call.minor>> \notin BumpFlags

\* C25's case: both flags handed to from_cli, and Major came back.
C25_Witness ==
    /\ FromCliReturned
    /\ call.major /\ call.minor
    /\ ret.bump_type = "Major"

----------------------------------------------------------------------------
(* C24: the latest tag (Spec) *)

\* C24: the latest tag version the resolver sees is the highest version among the
\* repository's tags of the form v<major>.<minor>.<patch>; the other tags that
\* start with v are ignored, and a repository with version tags is never taken
\* for one without tags.
C24_LatestTagIsHighestVersionTag ==
    (PastResolution /\ FoundT)
        => /\ latest_tag_version_of(start.tags) = Some(StartT)
           /\ action.kind = "Ok" => ~action.is_initial_tag

----------------------------------------------------------------------------
(* C26: what the dry run announces (Spec) *)

DryRunDone == pc = "done" /\ cli.dry_run

\* C26: the dry run describes what the run without the flag would do in the same
\* state: it announces the manifest update if and only if needs_manifest_update;
\* on a dirty tree it announces commit-and-tag; on a clean tree with an untagged
\* HEAD it announces a new commit and tag if HEAD is pushed, an amend and tag if
\* it is not; it announces nothing for a state in which the run without the flag
\* would fail.
C26_DryRunDescribesRealRun ==
    DryRunDone
        => /\ "[dry-run] Would update: Cargo.toml" \in output <=> action.needs_cargo_update
           /\ ctx.has_changes => "[dry-run] Would commit and tag" \in output
           /\ (~ctx.has_changes /\ ~head_has_tag /\ head_is_pushed)
                => "[dry-run] Would create new commit and tag" \in output
           /\ (~ctx.has_changes /\ ~head_has_tag /\ ~head_is_pushed)
                => "[dry-run] Would amend previous commit and tag" \in output
           /\ real_guard_error(cli) = ""

----------------------------------------------------------------------------
(* C27: the amend path (Spec) *)

\* The run is on the clean tree's branch with HEAD untagged and not pushed.
AmendPath == InWorkflow /\ ~ctx.has_changes /\ ~start.head_has_tag /\ ~start.head_is_pushed

EditorErrors == {"Editor exited with error", "Aborting commit due to empty commit message"}

\* C27: on the clean tree's branch with HEAD not pushed the commit-message policy
\* is never consulted: no message is resolved and no editor is opened, the
\* previous commit keeps its message, and the tag's message is "Bump version to
\* {tag}" for the target tag, whatever --message or --automatic were given.
C27_AmendPathKeepsMessage ==
    AmendPath
        => /\ pc /= "message"
           /\ commit_message = None
           /\ error \notin EditorErrors
           /\ ~Executed("commit")
           /\ head_message = start.head_message
           /\ Executed("create_tag")
                => tag_message = Some(<<"Bump version to ", NewTag>>)

\* C27's case: --message given, HEAD not pushed, the manifest update folded into
\* the previous commit, and the tag made with the automatic message.
C27_Witness ==
    /\ AmendPath /\ pc = "done"
    /\ cli.message = Some("explicit message")
    /\ Executed("amend_commit_no_edit")
    /\ head_message = <<"earlier message">>
    /\ tag_message = Some(<<"Bump version to ", format_tag(<<0, 1, 0>>)>>)

----------------------------------------------------------------------------
(* C28, C29: the tags and the manifest over successive runs (SpecRerun) *)

\* The run without the dry-run flag ended in success.
Released == pc = "done" /\ ~cli.dry_run

\* The version tags the run found: the tags of the form vx.y.z.
StartVersionTags == {x \in start.tags : x.tail = ""}

\* The run before this one created its tag.
PrevTagged == prev.ran /\ \E i \in 1 .. Len(prev.ops) : prev.ops[i] = "create_tag"

\* C28: over successive runs without the dry-run flag on one directory, whatever
\* the granularities and the state the first run starts from, the versions of the
\* tags created are strictly increasing: a run that succeeds has created a tag
\* whose version is greater than every version tag that existed before it, and
\* that tag is the latest tag for the next run.
C28_TagsStrictlyIncrease ==
    Released
        => /\ Executed("create_tag")
           /\ NewTag \in tags /\ NewTag \notin start.tags
           /\ \A x \in StartVersionTags : VersionLess(x.core, action.target_version)
           /\ PrevTagged => VersionLess(prev.target_version, action.target_version)
           /\ get_latest_tag(tags) = Some(NewTag)

\* C29: after every successful run without the dry-run flag the manifest's
\* version is the version of the tag the run created (x.y.z in the manifest,
\* vx.y.z for the tag, of the same target_version); hence a following run on the
\* result as it was left never fails with VersionMismatch.
C29_ManifestMatchesTag ==
    /\ Released
        => /\ Executed("create_tag")
           /\ manifest_version = Some(VersionString(FALSE, action.target_version, ""))
           /\ VersionString(TRUE, action.target_version, "") \in tags
    /\ (PrevTagged /\ pc /= "idle") => error /= "VersionMismatch"

----------------------------------------------------------------------------
(* C30: the tag comes last (Spec) *)

\* The steps of a run that come before its tag, and the error each returns when
\* it fails.
EarlierSteps == {"write_version", "sync_lockfile", "stage_all", "message", "commit", "amend"}

StepErrors(step) ==
    CASE step = "write_version" -> {"Failed to write Cargo.toml"}
      [] step = "sync_lockfile" -> {"cargo update failed"}
      [] step = "stage_all"     -> {"git add failed"}
      [] step = "message"       -> EditorErrors
      [] step = "commit"        -> {"git commit failed"}
      [] step = "amend"         -> {"git commit --amend failed"}

\* How many times the run executed op.
Count(op) == Cardinality({i \in 1 .. Len(ops) : ops[i] = op})

\* C30: a tag is created only after every earlier step of the run succeeded: if
\* write_version, sync_lockfile, stage_all, the resolution of the commit message,
\* commit or amend fails, the run returns that error and create_tag is never
\* called; a run calls create_tag at most once and commits or amends at most
\* once.
C30_TagOnlyAfterEarlierSteps ==
    /\ [] /\ (pc = "failed" /\ error \in UNION {StepErrors(step) : step \in EarlierSteps})
                => ~Executed("create_tag") /\ tags = start.tags
          /\ Count("create_tag") <= 1
          /\ Count("commit") + Count("amend_commit_no_edit") <= 1
          /\ Executed("create_tag")
                => /\ pc = "done" /\ error = ""
                   /\ ops[Len(ops)] = "create_tag"
                   /\ Executed("stage_all")
                   /\ action.needs_cargo_update
                        => Executed("write_version") /\ Executed("sync_lockfile")
                   /\ (ctx.has_changes \/ ctx.is_pushed) => IsSome(commit_message)
    /\ [][(pc \in EarlierSteps /\ pc' = "failed")
            => /\ error' \in StepErrors(pc)
               /\ ops' = ops
               /\ tags' = tags]_vars

\* C30's case: the manifest written and staged, the amend refused by git: the
\* run returned that error and made no tag.
C30_Witness ==
    /\ pc = "failed" /\ error = "git commit --amend failed"
    /\ ops = <<"write_version", "sync_lockfile", "stage_all">>
    /\ tags = start.tags

====
